---- MODULE Spec2Model ----
(***************************************************************************)
(* Model of lib/gui/utils.py: the extract/convert preview cache of the     *)
(* Images class (load_latest_preview and its helpers,                      *)
(* set_faceswap_output_path, delete_preview) together with the file system *)
(* it polls and the separate process that writes the preview images.       *)
(***************************************************************************)
EXTENDS Integers, Sequences, FiniteSets, TLC

\* ------------------------------------------------------------------ bounds
\* modification times are 1..MaxTime
MaxTime == 2
\* number of load_latest_preview calls in one behaviour
MaxPolls == 2
\* greatest number of cached thumbnails handed to _place_previews on its own
MaxCached == 3
\* number of get_result calls made on one LongRunningTask
MaxGets == 3
\* number of calls made on the PreviewTrigger
MaxCalls == 3
\* number of calls made on the module's initialize and get functions
MaxAsks == 4
\* greatest number of failed polls in a row counted for one training image
MaxFails == 12

\* ------------------------------------------------------------- universes
None == <<>>
Some(x) == <<x>>

OutDir == "out"
SubDir == "out/sub"
PreviewDir == ".cache/preview"
Dirs == {OutDir, SubDir, PreviewDir}
Locations == {OutDir, SubDir}
Parent(d) == IF d = SubDir THEN OutDir ELSE ""

GuiPreviewName == ".gui_preview.jpg"
FileNames == {GuiPreviewName, "a.png", "b.jpg"}
Join(dir, name) == <<dir, name>>
Basename(path) == path[2]
Dirname(path) == path[1]
FilePaths == {Join(OutDir, n) : n \in FileNames}

\* the training preview images in the preview folder of the cache
TrainFileNames == {".gui_training_preview.jpg", ".gui_training_preview_face.png"}
TrainFiles == {Join(PreviewDir, n) : n \in TrainFileNames}
\* the name load_training_preview derives from a file: the part of the
\* basename after the last underscore, without extension, in title case
TrainName(f) ==
    IF Basename(f) = ".gui_training_preview.jpg" THEN "Preview" ELSE "Face"
TrainNames == {TrainName(f) : f \in TrainFiles}
\* consecutive read failures tolerated by load_training_preview
ErrLimit == 10

MTimes == 1..MaxTime

\* LongRunningTask: what a target may do. It returns a value (None is one),
\* raises an exception derived from Exception, or raises one that is not
\* (SystemExit); a task may also be constructed without a target
TaskValues == {None, Some("result")}
Errors == {"ValueError#1", "OSError#2"}
Exits == {"SystemExit#3"}
Targets ==
    [does : {"returns"}, with : TaskValues]
       \cup [does : {"raises"}, with : {Some(e) : e \in Errors \cup Exits}]
\* the traceback sys.exc_info() holds for an exception raised by the target
TracebackOf(exception) == <<"run", "target", exception>>
\* the cursor names Config.set_cursor_busy and set_cursor_default configure
CursorBusy == "watch"
CursorDefault == ""
ThumbSizes == {1, 2}
\* the (width, height) pairs of the display panel
FrameDims == {0, 1, 2} \X {0, 1, 2}

Absent == [mtime |-> 0, ctime |-> 0]
FileStates == {Absent} \cup [mtime : MTimes, ctime : MTimes]

\* --------------------------------------------------------- sequence helpers
Range(s) == {s[i] : i \in DOMAIN s}
Min(a, b) == IF a < b THEN a ELSE b

\* list comprehension [x for x in s if keep(x)]
RECURSIVE Filter(_, _)
Filter(s, keep) ==
    IF s = <<>> THEN <<>>
    ELSE IF Head(s) \in keep THEN <<Head(s)>> \o Filter(Tail(s), keep)
         ELSE Filter(Tail(s), keep)

\* all orders in which os.listdir may return the entries of a set
RECURSIVE Perms(_)
Perms(S) ==
    IF S = {} THEN {<<>>}
    ELSE UNION {{<<x>> \o p : p \in Perms(S \ {x})} : x \in S}

\* the Python slice s[start:]
SliceFrom(s, start) == SubSeq(s, start + 1, Len(s))

\* the Python slice s[-n:] (n >= 0; s[-0:] is the whole list)
SliceLast(s, n) ==
    IF n = 0 \/ n >= Len(s) THEN s ELSE SubSeq(s, Len(s) - n + 1, Len(s))

\* ------------------------------------------------------------------- state
VARIABLES
    dirs,            \* the directories that exist on disk
    fs,              \* FilePaths -> FileStates: the image files on disk
    pathoutput,      \* Images._pathoutput (None or Some(location))
    batch_mode,      \* Images._batch_mode
    previewoutput,   \* Images._previewoutput (None or Some(composite grid))
    previewcache,    \* Images._previewcache: modified, images, filenames, placeholder
    pc,              \* position of the GUI thread inside load_latest_preview
    image_files,     \* local of load_latest_preview
    frame_dims,      \* argument of load_latest_preview
    thumbnail_size,  \* argument of load_latest_preview
    outcome,         \* how the last finished GUI call ended: [op, exc, ret]
    polls,           \* number of load_latest_preview calls made
    race,            \* whether the producer may act while a poll is in progress
    previewtrain,    \* Images._previewtrain: name -> None or Some([image, photo, modified])
    errcount,        \* Images._errcount
    trainfs,         \* TrainFiles -> modification time (0: no such file)
    \* one LongRunningTask and the widget it was given
    target,          \* Thread._target: None or Some(what the target does)
    err,             \* LongRunningTask.err: None or Some([exception, traceback])
    complete,        \* LongRunningTask._complete is set
    queue,           \* LongRunningTask._queue
    cursor,          \* the cursor of the widget
    worker,          \* the worker thread: [pc, held] (held: the value or exception in hand)
    getter,          \* position of the GUI thread inside get_result
    got,             \* how the last finished get_result call ended
    gets,            \* number of get_result calls made
    \* the PreviewTrigger and the cache folder it writes to
    markers,         \* TriggerTypes -> the trigger file on disk (None: no such file)
    caller,          \* the GUI thread inside set or clear: [pc, todo, did]
    reply,           \* how the last finished set or clear call ended: [op, exc, did]
    calls,           \* number of set and clear calls made
    asked,           \* trigger_type of the latest set or clear call (None: all)
    \* the module's global objects
    _CONFIG,         \* None or Some(the Config)
    _IMAGES,         \* None or Some(the Images)
    _PREVIEW_TRIGGER, \* None or Some(the PreviewTrigger)
    handed,          \* how the latest initialize, get or preview_trigger call ended
    asks,            \* number of such calls made
    \* history variables: they record what happened and drive nothing
    failed,          \* TrainNames -> failed reads of that image in a row, up to now
    appended,        \* the thumbnails appended to the cache since it was last empty
    caps,            \* the capacities (num_images) of the loads that appended them
    dropped,         \* the files whose latest load attempt was dropped
    cells            \* the grid cells of the display region of the latest poll

history == <<appended, caps, dropped, cells>>
train == <<previewtrain, errcount, trainfs>>
preview == <<dirs, fs, pathoutput, batch_mode, previewoutput, previewcache, pc,
             image_files, frame_dims, thumbnail_size, outcome, polls, race, train>>
task == <<target, err, complete, queue, cursor, worker, getter, got, gets>>
trigger == <<markers, caller, reply, calls, asked>>
globals == <<_CONFIG, _IMAGES, _PREVIEW_TRIGGER, handed, asks>>
vars == <<preview, task, trigger, globals, failed, history>>

\* ------------------------------------------------------------- file system
Exists(f) == fs[f] # Absent
getmtime(f) == fs[f].mtime
getctime(f) == fs[f].ctime
\* the files os.listdir finds in a directory
ListDir(d) == {f \in FilePaths : Dirname(f) = d /\ Exists(f)}
\* the sub-directories os.listdir finds in a directory
SubFolders(d) == {s \in dirs : Parent(s) = d}

PreviewExts == {".png", ".jpg"}
Ext(name) ==
    IF name \in {"a.png", ".gui_training_preview_face.png"} THEN ".png" ELSE ".jpg"

\* ------------------------------------------------- Images: pure helpers
EmptyCache == [modified |-> None, images |-> None, filenames |-> <<>>,
               placeholder |-> None]

\* the thumbnails held in the cache, <<>> when the cache holds None
CachedImages(cache) == IF cache.images = None THEN <<>> ELSE cache.images[1]

GuiPreview(location) == Join(location, GuiPreviewName)

\* Images._get_images on a listing (an order of the directory's files)
GetImages(image_path, listing) ==
    IF image_path \notin dirs THEN <<>>
    ELSE Filter(listing, {f \in Range(listing) : Ext(Basename(f)) \in PreviewExts})

\* Images._get_newest_folder: the sub-folder sorted last by mtime, else the
\* output folder itself (one sub-folder is modelled, so the sort is trivial)
GetNewestFolder(location) ==
    IF SubFolders(location) # {} THEN CHOOSE s \in SubFolders(location) : TRUE
    ELSE location

\* a test that ends the poll only when the folder holds no image file
NoPreviewWhenEmpty(files, gui_preview) == files = <<>>
\* lines 619-623 of load_latest_preview
NoPreview(files, gui_preview) ==
    files = <<>> \/ (Len(files) = 1 /\ gui_preview \notin Range(files))
\* candidates that keep the other images beside the reserved preview file
OnlyGuiPreviewUnion(files, gui_preview) == files
OnlyGuiPreview(files, gui_preview) ==
    IF gui_preview \in Range(files) THEN <<gui_preview>> ELSE files

\* a scan that also returns the files as old as the watermark
NewestFilenamesNotStrict(files, modified) ==
    IF modified = None THEN files
    ELSE Filter(files, {f \in Range(files) : getmtime(f) >= modified[1]})

\* Images._get_newest_filenames: the returned list
NewestFilenames(files, modified) ==
    IF modified = None THEN files
    ELSE Filter(files, {f \in Range(files) : getmtime(f) > modified[1]})

RECURSIVE MaxMtime(_)
MaxMtime(files) ==
    IF Len(files) = 1 THEN getmtime(files[1])
    ELSE LET m == MaxMtime(Tail(files))
         IN  IF getmtime(files[1]) > m THEN getmtime(files[1]) ELSE m

\* Images._get_newest_filenames: the watermark afterwards
NewestModified(retval, modified) ==
    IF retval = <<>> THEN modified ELSE Some(MaxMtime(retval))

\* a capacity that counts the thumbnails of one row only
NumImagesOneRow(dims, size) == dims[1] \div size
\* num_images of _load_images_to_cache
NumImages(dims, size) == (dims[1] \div size) * (dims[2] \div size)

\* sorted(image_files, key=os.path.getctime): a stable sort
RECURSIVE InsertByCtime(_, _)
InsertByCtime(f, sorted) ==
    IF sorted = <<>> THEN <<f>>
    ELSE IF getctime(f) < getctime(Head(sorted)) THEN <<f>> \o sorted
         ELSE <<Head(sorted)>> \o InsertByCtime(f, Tail(sorted))
RECURSIVE SortedByCtime(_)
SortedByCtime(files) ==
    IF files = <<>> THEN <<>>
    ELSE InsertByCtime(files[Len(files)], SortedByCtime(SubSeq(files, 1, Len(files) - 1)))

\* show_files of _load_images_to_cache
ShowFiles(files, num_images) ==
    LET start_idx == IF Len(files) > num_images THEN Len(files) - num_images ELSE 0
    IN  SliceFrom(SortedByCtime(files), start_idx)

\* Images._pad_and_border on the image of a file: a square thumbnail
PadAndBorder(f, size) == [file |-> f, size |-> size]

\* the loop of _load_images_to_cache: failing holds the files whose open or
\* resize raises (PermissionError, any Exception on open, OSError on resize)
DroppedFiles(show_files, failing) == Filter(show_files, failing)
RECURSIVE Samples(_, _, _)
Samples(show_files, failing, size) ==
    IF show_files = <<>> THEN <<>>
    ELSE IF Head(show_files) \in failing THEN Samples(Tail(show_files), failing, size)
         ELSE <<PadAndBorder(Head(show_files), size)>>
              \o Samples(Tail(show_files), failing, size)
\* a filename list that still names the dropped files
LoadedFilenamesAll(show_files, dropped_files) == show_files
\* the filename list handed to _process_samples
LoadedFilenames(show_files, dropped_files) ==
    Filter(show_files, Range(show_files) \ Range(dropped_files))

\* np.concatenate((cache, asamples)) needs thumbnails of one shape
SameShape(cache_images, samples) == cache_images[1].size = samples[1].size

\* a cache that keeps its oldest entries instead of its newest
ProcessSamplesKeepOldest(cache, samples, filenames, num_images) ==
    IF samples = <<>>
    THEN [ret |-> FALSE, exc |-> "none", cache |-> cache]
    ELSE LET names == cache.filenames \o filenames
             images == CachedImages(cache) \o samples
         IN  [ret |-> TRUE, exc |-> "none",
              cache |-> [cache EXCEPT
                            !.filenames = SubSeq(names, 1, Min(num_images, Len(names))),
                            !.images = Some(SubSeq(images, 1, Min(num_images, Len(images))))]]

\* Images._process_samples with samples to add: the filenames are stored
\* before the arrays are concatenated, so a ValueError leaves them stored
StoreSamples(cache, samples, filenames, num_images) ==
    LET named == [cache EXCEPT
                     !.filenames = SliceLast(cache.filenames \o filenames, num_images)]
    IN  IF cache.images = None
        THEN [ret |-> TRUE, exc |-> "none",
              cache |-> [named EXCEPT !.images = Some(SliceLast(samples, num_images))]]
        ELSE IF ~SameShape(cache.images[1], samples)
        THEN [ret |-> FALSE, exc |-> "ValueError", cache |-> named]
        ELSE [ret |-> TRUE, exc |-> "none",
              cache |-> [named EXCEPT !.images =
                            Some(SliceLast(cache.images[1] \o samples, num_images))]]

\* a cache that is emptied when a load brings no thumbnail
ProcessSamplesClearOnEmpty(cache, samples, filenames, num_images) ==
    IF samples = <<>>
    THEN [ret |-> FALSE, exc |-> "none",
          cache |-> [cache EXCEPT !.images = None, !.filenames = <<>>]]
    ELSE StoreSamples(cache, samples, filenames, num_images)

\* Images._process_samples: [ret, exc, cache]
ProcessSamples(cache, samples, filenames, num_images) ==
    IF samples = <<>>
    THEN [ret |-> FALSE, exc |-> "none", cache |-> cache]
    ELSE StoreSamples(cache, samples, filenames, num_images)

\* Images._load_images_to_cache once the creation times have been read
LoadImagesToCache(cache, files, dims, size, failing) ==
    LET num_images == NumImages(dims, size)
        show_files == ShowFiles(files, num_images)
        dropped_files == DroppedFiles(show_files, failing)
    IN  IF num_images = 0
        THEN [ret |-> FALSE, exc |-> "none", cache |-> cache]
        ELSE ProcessSamples(cache, Samples(show_files, failing, size),
                            LoadedFilenames(show_files, dropped_files), num_images)

\* Images._create_placeholder
Placeholder(size) == [file |-> Join("", "placeholder"), size |-> size]
CreatePlaceholder(cache, size) == [cache EXCEPT !.placeholder = Some(Placeholder(size))]

\* a padding that puts the placeholders in front of the thumbnails
PadSamplesFirst(samples, placeholder, remainder) ==
    [i \in 1..remainder |-> placeholder] \o samples
\* the cells of the composite: the samples, padded with remainder placeholders
PadSamples(samples, placeholder, remainder) ==
    samples \o [i \in 1..remainder |-> placeholder]

\* np.vstack([np.hstack(samples[row * cols: (row + 1) * cols])
\*            for row in range(rows)]): the rows of the composite, top to
\* bottom, each the cells of that row from left to right
Display(samples, cols, rows) ==
    [row \in 1..rows |-> SubSeq(samples, (row - 1) * cols + 1, row * cols)]

\* lines 854-865 of _place_previews: pad and lay out; [image, exc, cache]
LayOut(held, samples, cols, rows) ==
    LET remainder == (cols * rows) - Len(samples)
    IN  IF remainder < 0
        THEN [image |-> None, exc |-> "ValueError", cache |-> held]
        ELSE [image |-> Some([cols |-> cols, rows |-> rows,
                              grid |-> Display(PadSamples(samples, held.placeholder[1],
                                                          remainder),
                                               cols, rows)]),
              exc |-> "none", cache |-> held]

\* the cache once _place_previews has made sure of the placeholder
WithPlaceholder(cache) ==
    IF cache.placeholder = None
    THEN CreatePlaceholder(cache, cache.images[1][1].size) ELSE cache

\* a composition that lays out a grid even when no cell fits the region
PlacePreviewsNoZeroCheck(cache, dims) ==
    IF cache.images = None
    THEN [image |-> None, exc |-> "none", cache |-> cache]
    ELSE LET size == cache.images[1][1].size
         IN  LayOut(WithPlaceholder(cache), cache.images[1],
                    dims[1] \div size, dims[2] \div size)

\* Images._place_previews: [image, exc, cache]
PlacePreviews(cache, dims) ==
    IF cache.images = None
    THEN [image |-> None, exc |-> "none", cache |-> cache]
    ELSE LET samples == cache.images[1]
             size == samples[1].size
             held == WithPlaceholder(cache)
             cols == dims[1] \div size
             rows == dims[2] \div size
         IN  IF cols = 0 \/ rows = 0
             THEN [image |-> None, exc |-> "none", cache |-> held]
             ELSE LayOut(held, samples, cols, rows)

\* Images._clear_image_cache leaves this cache
ClearedCache == EmptyCache

\* ------------------------------------------------------------------ actions
Ended(op, exc, ret) == [op |-> op, exc |-> exc, ret |-> ret]
Poll == "load_latest_preview"

\* the locals and arguments of load_latest_preview are dead once it has ended
ResetLocals ==
    /\ pc' = "idle"
    /\ image_files' = <<>>
    /\ frame_dims' = <<0, 0>>
    /\ thumbnail_size' = 1

Return(ret) == ResetLocals /\ outcome' = Ended(Poll, "none", ret)
Raise(exc) == ResetLocals /\ outcome' = Ended(Poll, exc, "raised")

GuiIdle == pc = "idle"
\* the producer is a separate process; with race it also runs during a poll
ProducerMayAct == pc = "idle" \/ race

\* Images.set_faceswap_output_path
SetFaceswapOutputPath(location, batch) ==
    /\ GuiIdle
    /\ pathoutput' = Some(location)
    /\ batch_mode' = batch
    /\ outcome' = Ended("set_faceswap_output_path", "none", "returned")
    /\ UNCHANGED <<train, dirs, fs, previewoutput, previewcache, pc, image_files,
                   frame_dims, thumbnail_size, polls, race>>

\* the files delete_preview removes: the cached names whose basename is the
\* reserved preview name (a missing one is skipped)
CachedGuiPreviews(cache) ==
    {f \in Range(cache.filenames) : Basename(f) = GuiPreviewName}

\* the empty dict of training previews
EmptyTrain == [name \in TrainNames |-> None]

\* the training preview files in the preview folder
TrainListDir == {f \in TrainFiles : trainfs[f] # 0}
\* the items of the preview folder that delete_preview removes
StalePreviews ==
    {f \in TrainListDir : Basename(f) # ".gui_training_preview_face.png"}

\* Images.delete_preview
DeletePreview ==
    /\ GuiIdle
    /\ IF PreviewDir \notin dirs
       THEN /\ outcome' = Ended("delete_preview", "FileNotFoundError", "raised")
            /\ UNCHANGED <<fs, pathoutput, batch_mode, previewoutput, previewcache,
                           previewtrain, trainfs>>
       ELSE /\ trainfs' = [f \in TrainFiles |->
                              IF f \in StalePreviews THEN 0 ELSE trainfs[f]]
            /\ fs' = [f \in FilePaths |->
                         IF f \in CachedGuiPreviews(previewcache) THEN Absent ELSE fs[f]]
            /\ pathoutput' = None
            /\ batch_mode' = FALSE
            /\ previewoutput' = None
            /\ previewtrain' = EmptyTrain
            /\ previewcache' = ClearedCache
            /\ outcome' = Ended("delete_preview", "none", "returned")
    /\ UNCHANGED <<errcount, dirs, pc, image_files, frame_dims, thumbnail_size, polls,
                   race>>

\* what may happen to one file in the loop of load_training_preview: it is
\* read and resized, Image.open raises, or resize_image raises after the
\* entry of the file has been stored
ReadOutcomes == {"ok", "open_ValueError", "open_OSError",
                 "resize_ValueError", "resize_OSError"}

\* lines 908-919: the handler of ValueError
AfterValueError(st, name) ==
    IF st.errcount < ErrLimit
    THEN [st EXCEPT !.errcount = st.errcount + 1]
    ELSE IF st.train[name] = None
    THEN [st EXCEPT !.exc = "KeyError"]
    ELSE [st EXCEPT !.train[name] = None]

\* lines 898-919: one pass of the loop; st is [train, errcount, exc]
TrainFile(st, img, read, modified) ==
    LET name == TrainName(img)
        opened == [st EXCEPT !.train[name] =
                      Some([image |-> img, photo |-> FALSE, modified |-> modified])]
    IN  CASE read = "ok" ->
                [opened EXCEPT !.train[name] =
                    Some([image |-> img, photo |-> TRUE, modified |-> modified]),
                               !.errcount = 0]
          [] read = "open_ValueError" -> AfterValueError(st, name)
          [] read = "open_OSError" -> [st EXCEPT !.exc = "OSError"]
          [] read = "resize_ValueError" -> AfterValueError(opened, name)
          [] read = "resize_OSError" -> [opened EXCEPT !.exc = "OSError"]

\* the loop over image_files: an exception that is not caught ends it
RECURSIVE TrainLoop(_, _, _, _)
TrainLoop(st, files, reads, modified) ==
    IF files = <<>> \/ st.exc # "none" THEN st
    ELSE TrainLoop(TrainFile(st, Head(files), reads[Head(files)], modified),
                   Tail(files), reads, modified)

\* Images.load_training_preview: modified is read from the first file only
LoadTrainingPreview(reads) ==
    /\ GuiIdle
    /\ \E listing \in Perms(TrainListDir) :
          LET files == GetImages(PreviewDir, listing)
          IN  IF files = <<>>
              THEN /\ previewtrain' = EmptyTrain
                   /\ outcome' = Ended("load_training_preview", "none", "no_preview")
                   /\ UNCHANGED errcount
              ELSE LET done == TrainLoop([train |-> previewtrain, errcount |-> errcount,
                                          exc |-> "none"],
                                         files, reads, trainfs[files[1]])
                   IN  /\ previewtrain' = done.train
                       /\ errcount' = done.errcount
                       /\ outcome' = Ended("load_training_preview", done.exc,
                                           IF done.exc = "none" THEN "returned"
                                           ELSE "raised")
    /\ UNCHANGED <<trainfs, dirs, fs, pathoutput, batch_mode, previewoutput, previewcache,
                   pc, image_files, frame_dims, thumbnail_size, polls, race>>

\* the training process writes a preview image
TrainerWrite(f, mtime) ==
    /\ ProducerMayAct
    /\ Dirname(f) \in dirs
    /\ trainfs' = [trainfs EXCEPT ![f] = mtime]
    /\ UNCHANGED <<previewtrain, errcount, dirs, fs, pathoutput, batch_mode,
                   previewoutput, previewcache, pc, image_files, frame_dims,
                   thumbnail_size, outcome, polls, race>>

\* load_latest_preview, lines 615-624: list the folder, pick the candidates
LoadLatestPreview(size, dims) ==
    /\ GuiIdle
    /\ pathoutput # None
    /\ polls < MaxPolls
    /\ polls' = polls + 1
    /\ IF batch_mode /\ pathoutput[1] \notin dirs
       THEN Raise("FileNotFoundError")
       ELSE LET image_path == IF batch_mode THEN GetNewestFolder(pathoutput[1])
                              ELSE pathoutput[1]
                gui_preview == GuiPreview(pathoutput[1])
            IN  \E listing \in Perms(ListDir(image_path)) :
                  LET files == GetImages(image_path, listing)
                  IN  IF NoPreview(files, gui_preview)
                      THEN Return("no_preview")
                      ELSE /\ pc' = "newest"
                           /\ image_files' = OnlyGuiPreview(files, gui_preview)
                           /\ frame_dims' = dims
                           /\ thumbnail_size' = size
                           /\ UNCHANGED outcome
    /\ UNCHANGED <<train, dirs, fs, pathoutput, batch_mode, previewoutput, previewcache, race>>

\* load_latest_preview, lines 626-628: _get_newest_filenames
GetNewestFilenames ==
    /\ pc = "newest"
    /\ LET modified == previewcache.modified
           stat == IF modified = None THEN {} ELSE Range(image_files)
       IN  IF \E f \in stat : ~Exists(f)
           THEN Raise("FileNotFoundError") /\ UNCHANGED previewcache
           ELSE LET retval == NewestFilenames(image_files, modified)
                IN  IF \E f \in Range(retval) : ~Exists(f)
                    THEN Raise("FileNotFoundError") /\ UNCHANGED previewcache
                    ELSE /\ previewcache' = [previewcache EXCEPT
                                !.modified = NewestModified(retval, modified)]
                         /\ IF retval = <<>>
                            THEN Return("no_new")
                            ELSE /\ pc' = "load"
                                 /\ image_files' = retval
                                 /\ UNCHANGED <<frame_dims, thumbnail_size, outcome>>
    /\ UNCHANGED <<train, dirs, fs, pathoutput, batch_mode, previewoutput, polls, race>>

\* a failed load that resets the watermark whatever file failed
AfterFailedLoadAlwaysReset(cache, files, gui_preview) == [cache EXCEPT !.modified = None]
\* a failed load that leaves the watermark where the scan has put it
AfterFailedLoadNoReset(cache, files, gui_preview) == cache
\* load_latest_preview, lines 632-635: a failed load of the reserved preview
\* file resets the watermark
AfterFailedLoad(cache, files, gui_preview) ==
    IF gui_preview \in Range(files) THEN [cache EXCEPT !.modified = None] ELSE cache

\* load_latest_preview, lines 630-636: _load_images_to_cache
LoadImages(failing) ==
    /\ pc = "load"
    /\ failing \subseteq Range(image_files)
    /\ LET gui_preview == GuiPreview(pathoutput[1])
           num_images == NumImages(frame_dims, thumbnail_size)
       IN  IF num_images # 0 /\ \E f \in Range(image_files) : ~Exists(f)
           THEN Raise("FileNotFoundError") /\ UNCHANGED previewcache
           ELSE LET done == LoadImagesToCache(previewcache, image_files, frame_dims,
                                              thumbnail_size, failing)
                IN  IF done.exc # "none"
                    THEN Raise(done.exc) /\ previewcache' = done.cache
                    ELSE IF ~done.ret
                    THEN /\ previewcache' = AfterFailedLoad(done.cache, image_files, gui_preview)
                         /\ Return(IF gui_preview \in Range(image_files)
                                   THEN "not_loaded_reset" ELSE "not_loaded")
                    ELSE /\ previewcache' = done.cache
                         /\ pc' = "show"
                         /\ UNCHANGED <<image_files, frame_dims, thumbnail_size, outcome>>
    /\ UNCHANGED <<train, dirs, fs, pathoutput, batch_mode, previewoutput, polls, race>>

\* load_latest_preview, lines 638-647: delete the reserved file, compose
ShowPreview ==
    /\ pc = "show"
    /\ LET gui_preview == GuiPreview(pathoutput[1])
           remove == image_files = <<gui_preview>>
       IN  IF remove /\ ~Exists(gui_preview)
           THEN /\ Raise("FileNotFoundError")
                /\ UNCHANGED <<fs, previewcache, previewoutput>>
           ELSE LET placed == PlacePreviews(previewcache, frame_dims)
                IN  /\ fs' = IF remove THEN [fs EXCEPT ![gui_preview] = Absent] ELSE fs
                    /\ previewcache' = placed.cache
                    /\ IF placed.exc # "none"
                       THEN Raise(placed.exc) /\ UNCHANGED previewoutput
                       ELSE /\ previewoutput' = placed.image
                            /\ Return(IF placed.image = None THEN "no_show"
                                      ELSE "displayed")
    /\ UNCHANGED <<train, dirs, pathoutput, batch_mode, polls, race>>

\* the producer (or the user) creates a directory
MkDir(d) ==
    /\ ProducerMayAct
    /\ d \notin dirs
    /\ Parent(d) = "" \/ Parent(d) \in dirs
    /\ dirs' = dirs \cup {d}
    /\ UNCHANGED <<train, fs, pathoutput, batch_mode, previewoutput, previewcache, pc,
                   image_files, frame_dims, thumbnail_size, outcome, polls, race>>

\* the producer writes (or rewrites) an image file: the write stamps both the
\* modification time and the change time of the file
ProducerWrite(f, mtime) ==
    /\ ProducerMayAct
    /\ Dirname(f) \in dirs
    /\ fs' = [fs EXCEPT ![f] = [mtime |-> mtime, ctime |-> mtime]]
    /\ UNCHANGED <<train, dirs, pathoutput, batch_mode, previewoutput, previewcache, pc,
                   image_files, frame_dims, thumbnail_size, outcome, polls, race>>

\* the producer removes an image file
ProducerRemove(f) ==
    /\ ProducerMayAct
    /\ Exists(f)
    /\ fs' = [fs EXCEPT ![f] = Absent]
    /\ UNCHANGED <<train, dirs, pathoutput, batch_mode, previewoutput, previewcache, pc,
                   image_files, frame_dims, thumbnail_size, outcome, polls, race>>

\* ------------------------------------------------------- LongRunningTask
At(position, held) == [pc |-> position, held |-> held]
Result(kind, ret, exception, traceback) ==
    [kind |-> kind, ret |-> ret, exc |-> exception, traceback |-> traceback]
NoResult == Result("no_call", None, None, <<>>)

\* LongRunningTask.__init__
NewTask(thread_target) ==
    /\ worker.pc = "unbuilt"
    /\ target' = thread_target
    /\ err' = None
    /\ cursor' = CursorBusy
    /\ complete' = FALSE
    /\ queue' = <<>>
    /\ worker' = At("new", None)
    /\ UNCHANGED <<getter, got, gets>>

\* Thread.start: run begins on the worker thread
Start ==
    /\ worker.pc = "new"
    /\ worker' = At("run", None)
    /\ UNCHANGED <<target, err, complete, queue, cursor, getter, got, gets>>

\* a run that sets the event before it has recorded the outcome
CallTargetSetsEvent ==
    /\ worker.pc = "run"
    /\ complete' = TRUE
    /\ worker' = IF target = None THEN At("finally", None)
                 ELSE IF target[1].does = "returns" THEN At("put", target[1].with)
                 ELSE IF target[1].with[1] \in Errors THEN At("except", target[1].with)
                 ELSE At("finally", target[1].with)
    /\ UNCHANGED <<target, err, queue, cursor, getter, got, gets>>

\* run, lines 1387-1389: the call of the target
CallTarget ==
    /\ worker.pc = "run"
    /\ worker' = IF target = None THEN At("finally", None)
                 ELSE IF target[1].does = "returns" THEN At("put", target[1].with)
                 ELSE IF target[1].with[1] \in Errors THEN At("except", target[1].with)
                 ELSE At("finally", target[1].with)
    /\ UNCHANGED <<target, err, complete, queue, cursor, getter, got, gets>>

\* run, line 1390: self._queue.put(retval)
PutResult ==
    /\ worker.pc = "put"
    /\ queue' = Append(queue, worker.held)
    /\ worker' = At("finally", None)
    /\ UNCHANGED <<target, err, complete, cursor, getter, got, gets>>

\* run, lines 1391-1396: except Exception stores sys.exc_info()
StoreError ==
    /\ worker.pc = "except"
    /\ err' = Some([exception |-> worker.held[1],
                    traceback |-> TracebackOf(worker.held[1])])
    /\ worker' = At("finally", None)
    /\ UNCHANGED <<target, complete, queue, cursor, getter, got, gets>>

\* run, lines 1397-1401: finally sets the event and drops the target; an
\* exception that was not caught then leaves run
Finally ==
    /\ worker.pc = "finally"
    /\ complete' = TRUE
    /\ target' = None
    /\ worker' = IF worker.held = None THEN At("done", None)
                 ELSE At("propagated", worker.held)
    /\ UNCHANGED <<err, queue, cursor, getter, got, gets>>

\* a get_result that goes on to fetch the result whether or not the task
\* has completed
GetResultNoTest ==
    /\ getter = "idle"
    /\ worker.pc # "unbuilt"
    /\ gets < MaxGets
    /\ gets' = gets + 1
    /\ getter' = "err"
    /\ UNCHANGED <<got, target, err, complete, queue, cursor, worker>>

\* get_result, lines 1413-1416: the test of the complete event
GetResult ==
    /\ getter = "idle"
    /\ worker.pc # "unbuilt"
    /\ gets < MaxGets
    /\ gets' = gets + 1
    /\ IF ~complete
       THEN got' = Result("not_ready", None, None, <<>>) /\ UNCHANGED getter
       ELSE getter' = "err" /\ UNCHANGED got
    /\ UNCHANGED <<target, err, complete, queue, cursor, worker>>

\* a get_result that raises a new exception in place of the stored one
ReraisedAnew(stored) == Result("raised", None, Some("RuntimeError#0"), <<"get_result">>)
\* what get_result raises: self.err[1].with_traceback(self.err[2])
Reraised(stored) == Result("raised", None, Some(stored.exception), stored.traceback)

\* a get_result that leaves the cursor busy when it raises the stored error
GetResultErrorBusy ==
    /\ getter = "err"
    /\ IF err # None
       THEN /\ got' = Reraised(err[1])
            /\ getter' = "idle"
            /\ UNCHANGED cursor
       ELSE /\ getter' = "get"
            /\ UNCHANGED <<cursor, got>>
    /\ UNCHANGED <<target, err, complete, queue, worker, gets>>

\* get_result, lines 1417-1422: the stored error is raised again
GetResultError ==
    /\ getter = "err"
    /\ IF err # None
       THEN /\ cursor' = CursorDefault
            /\ got' = Reraised(err[1])
            /\ getter' = "idle"
       ELSE /\ getter' = "get"
            /\ UNCHANGED <<cursor, got>>
    /\ UNCHANGED <<target, err, complete, queue, worker, gets>>

\* get_result, lines 1423-1426: self._queue.get() blocks while the queue is
\* empty
GetResultValue ==
    /\ getter = "get"
    /\ queue # <<>>
    /\ queue' = Tail(queue)
    /\ cursor' = CursorDefault
    /\ got' = Result("returned", Head(queue), None, <<>>)
    /\ getter' = "idle"
    /\ UNCHANGED <<target, err, complete, worker, gets>>

\* ---------------------------------------------------------- PreviewTrigger
\* __init__, lines 1437-1438: the keys of _trigger_files and the files they name
TriggerTypes == {"update", "mask_toggle"}
TriggerFile(trigger_type) ==
    IF trigger_type = "update" THEN <<".cache", ".preview_trigger">>
    ELSE <<".cache", ".preview_mask_toggle">>
\* list(self._trigger_files.values()), line 1467: the order of the dict
AllTriggers == <<"update", "mask_toggle">>

\* what open(trigger, "w") with an empty body leaves on disk: an empty file
Marker(mtime) == Some([size |-> 0, mtime |-> mtime])
Markers == {None} \cup {Marker(mtime) : mtime \in MTimes}
\* os.path.isfile(trigger)
IsFile(trigger_type) == markers[trigger_type] # None

\* did: whether the call has created or removed a file (it then logs the
\* change, lines 1455 and 1473)
Waiting == [pc |-> "idle", todo |-> <<>>, did |-> FALSE]
Reply(op, exc, did) == [op |-> op, exc |-> exc, did |-> did]

\* a set that opens the trigger file for writing whether or not it is there
TriggerSetAlways(trigger_type) ==
    /\ caller = Waiting
    /\ calls < MaxCalls
    /\ calls' = calls + 1
    /\ asked' = Some(trigger_type)
    /\ caller' = [pc |-> "open", todo |-> <<trigger_type>>, did |-> FALSE]
    /\ UNCHANGED <<markers, reply>>

\* set, lines 1451-1452: the test of os.path.isfile
TriggerSet(trigger_type) ==
    /\ caller = Waiting
    /\ calls < MaxCalls
    /\ calls' = calls + 1
    /\ asked' = Some(trigger_type)
    /\ IF ~IsFile(trigger_type)
       THEN /\ caller' = [pc |-> "open", todo |-> <<trigger_type>>, did |-> FALSE]
            /\ UNCHANGED reply
       ELSE /\ reply' = Reply("set", "none", FALSE)
            /\ UNCHANGED caller
    /\ UNCHANGED markers

\* set, lines 1453-1455: open(trigger, "w") creates the file, or truncates it
TriggerSetOpen ==
    /\ caller.pc = "open"
    /\ \E mtime \in MTimes :
          markers' = [markers EXCEPT ![caller.todo[1]] = Marker(mtime)]
    /\ caller' = Waiting
    /\ reply' = Reply("set", "none", TRUE)
    /\ UNCHANGED <<calls, asked>>

\* clear, lines 1466-1469: the list of the triggers to remove
TriggerClear(trigger_type) ==
    /\ caller = Waiting
    /\ calls < MaxCalls
    /\ calls' = calls + 1
    /\ asked' = trigger_type
    /\ caller' = [pc |-> "test",
                  todo |-> IF trigger_type = None THEN AllTriggers ELSE trigger_type,
                  did |-> FALSE]
    /\ UNCHANGED <<markers, reply>>

\* a clear that removes each listed trigger file without testing for it
TriggerClearNoTest ==
    /\ caller.pc = "test"
    /\ IF caller.todo = <<>>
       THEN /\ caller' = Waiting
            /\ reply' = Reply("clear", "none", caller.did)
       ELSE /\ caller' = [caller EXCEPT !.pc = "remove"]
            /\ UNCHANGED reply
    /\ UNCHANGED <<markers, calls, asked>>

\* clear, lines 1470-1471: the loop and its test of os.path.isfile
TriggerClearTest ==
    /\ caller.pc = "test"
    /\ IF caller.todo = <<>>
       THEN /\ caller' = Waiting
            /\ reply' = Reply("clear", "none", caller.did)
       ELSE /\ caller' = IF IsFile(Head(caller.todo))
                         THEN [caller EXCEPT !.pc = "remove"]
                         ELSE [caller EXCEPT !.todo = Tail(caller.todo)]
            /\ UNCHANGED reply
    /\ UNCHANGED <<markers, calls, asked>>

\* clear, lines 1472-1473: os.remove raises FileNotFoundError when the file is
\* no longer there
TriggerClearRemove ==
    /\ caller.pc = "remove"
    /\ IF IsFile(Head(caller.todo))
       THEN /\ markers' = [markers EXCEPT ![Head(caller.todo)] = None]
            /\ caller' = [pc |-> "test", todo |-> Tail(caller.todo), did |-> TRUE]
            /\ UNCHANGED reply
       ELSE /\ caller' = Waiting
            /\ reply' = Reply("clear", "FileNotFoundError", caller.did)
            /\ UNCHANGED markers
    /\ UNCHANGED <<calls, asked>>

\* the faceswap process picks a trigger file up and removes it (the spec's
\* worker that consumes the marker; its code is in scripts/train.py)
Consume(trigger_type) ==
    /\ IsFile(trigger_type)
    /\ markers' = [markers EXCEPT ![trigger_type] = None]
    /\ UNCHANGED <<caller, reply, calls, asked>>

\* the cache folder holds no trigger file and no call has been made
NoTrigger ==
    /\ markers = [trigger_type \in TriggerTypes |-> None]
    /\ caller = Waiting
    /\ reply = Reply("none", "none", FALSE)
    /\ calls = 0
    /\ asked = None

\* --------------------------------------------------------- global objects
\* an object of a class, told apart from the others by the call that built it
New(class) == [class |-> class, born |-> asks + 1]
Handed(fn, ret, exc) == [fn |-> fn, ret |-> ret, exc |-> exc]

\* an initialize_config that builds a Config on every call
InitializeConfigAgain ==
    /\ asks < MaxAsks
    /\ asks' = asks + 1
    /\ _CONFIG' = Some(New("Config"))
    /\ handed' = Handed("initialize_config", _CONFIG', "none")
    /\ UNCHANGED <<_IMAGES, _PREVIEW_TRIGGER>>

\* initialize_config, lines 45-74
InitializeConfig ==
    /\ asks < MaxAsks
    /\ asks' = asks + 1
    /\ IF _CONFIG # None
       THEN /\ handed' = Handed("initialize_config", None, "none")
            /\ UNCHANGED _CONFIG
       ELSE /\ _CONFIG' = Some(New("Config"))
            /\ handed' = Handed("initialize_config", _CONFIG', "none")
    /\ UNCHANGED <<_IMAGES, _PREVIEW_TRIGGER>>

\* get_config, lines 77-86
GetConfig ==
    /\ asks < MaxAsks
    /\ asks' = asks + 1
    /\ handed' = IF _CONFIG # None THEN Handed("get_config", _CONFIG, "none")
                 ELSE Handed("get_config", None, "AssertionError")
    /\ UNCHANGED <<_CONFIG, _IMAGES, _PREVIEW_TRIGGER>>

\* initialize_images, lines 89-99; Images() calls get_config() in _load_icons
\* (line 513), whose assertion fails while there is no Config
InitializeImages ==
    /\ asks < MaxAsks
    /\ asks' = asks + 1
    /\ IF _IMAGES # None
       THEN /\ handed' = Handed("initialize_images", None, "none")
            /\ UNCHANGED _IMAGES
       ELSE IF _CONFIG = None
       THEN /\ handed' = Handed("initialize_images", None, "AssertionError")
            /\ UNCHANGED _IMAGES
       ELSE /\ _IMAGES' = Some(New("Images"))
            /\ handed' = Handed("initialize_images", None, "none")
    /\ UNCHANGED <<_CONFIG, _PREVIEW_TRIGGER>>

\* get_images, lines 102-111
GetImagesGlobal ==
    /\ asks < MaxAsks
    /\ asks' = asks + 1
    /\ handed' = IF _IMAGES # None THEN Handed("get_images", _IMAGES, "none")
                 ELSE Handed("get_images", None, "AssertionError")
    /\ UNCHANGED <<_CONFIG, _IMAGES, _PREVIEW_TRIGGER>>

\* preview_trigger, lines 1476-1488
PreviewTriggerGet ==
    /\ asks < MaxAsks
    /\ asks' = asks + 1
    /\ _PREVIEW_TRIGGER' = IF _PREVIEW_TRIGGER # None THEN _PREVIEW_TRIGGER
                           ELSE Some(New("PreviewTrigger"))
    /\ handed' = Handed("preview_trigger", _PREVIEW_TRIGGER', "none")
    /\ UNCHANGED <<_CONFIG, _IMAGES>>

\* the module has been imported and none of its functions called
NoGlobals ==
    /\ _CONFIG = None
    /\ _IMAGES = None
    /\ _PREVIEW_TRIGGER = None
    /\ handed = Handed("none", None, "none")
    /\ asks = 0

\* ------------------------------------------------------- history variables
Blind == UNCHANGED <<history, task, trigger, globals, failed>>

\* a poll records the grid cells of the display region it was given
PollCells(size, dims) ==
    /\ LoadLatestPreview(size, dims)
    /\ cells' = NumImages(dims, size)

\* a load records what it appended
LoadHistory(failing) ==
    /\ LoadImages(failing)
    /\ LET num_images == NumImages(frame_dims, thumbnail_size)
           show_files == ShowFiles(image_files, num_images)
       IN  /\ appended' = IF pc' = "show"
                          THEN appended \o Samples(show_files, failing, thumbnail_size)
                          ELSE appended
           /\ caps' = IF pc' = "show" THEN caps \cup {num_images} ELSE caps

\* a load records what it dropped
LoadDropped(failing) ==
    /\ LoadImages(failing)
    /\ LET num_images == NumImages(frame_dims, thumbnail_size)
           show_files == ShowFiles(image_files, num_images)
           tried == num_images # 0 /\ \A f \in Range(image_files) : Exists(f)
       IN  dropped' = IF tried
                      THEN (dropped \ Range(show_files))
                           \cup Range(DroppedFiles(show_files, failing))
                      ELSE dropped

\* the file that holds the training image of a name
TrainFileOf(name) == CHOOSE f \in TrainFiles : TrainName(f) = name

\* the reads of a training image that end in the handler of ValueError after
\* the image has been stored in previewtrain, and the reads that succeed:
\* with these the loop of load_training_preview reads every listed file
CaughtReads == {"ok", "resize_ValueError"}

\* a load of the training preview counts, for each image in the folder, the
\* polls in a row that failed to read it
TrainHistory(reads) ==
    /\ LoadTrainingPreview(reads)
    /\ failed' = [name \in TrainNames |->
                    IF \A listing \in Perms(TrainListDir) :
                          TrainFileOf(name) \notin Range(GetImages(PreviewDir, listing))
                    THEN failed[name]
                    ELSE IF reads[TrainFileOf(name)] = "ok" THEN 0
                    ELSE Min(failed[name] + 1, MaxFails)]

\* clearing the cache starts the history afresh
DeleteHistory ==
    /\ DeletePreview
    /\ IF outcome'.exc = "none"
       THEN appended' = <<>> /\ caps' = {}
       ELSE UNCHANGED <<appended, caps>>

\* ------------------------------------------------------------ specification
\* no LongRunningTask has been constructed
NoTask ==
    /\ target = None
    /\ err = None
    /\ complete = FALSE
    /\ queue = <<>>
    /\ cursor = CursorDefault
    /\ worker = At("unbuilt", None)
    /\ getter = "idle"
    /\ got = NoResult
    /\ gets = 0

\* no training preview has been written or loaded
NoTraining ==
    /\ previewtrain = EmptyTrain
    /\ errcount = 0
    /\ trainfs = [f \in TrainFiles |-> 0]

\* the state after Images.__init__
Constructed ==
    /\ NoTraining
    /\ NoTask
    /\ NoTrigger
    /\ NoGlobals
    /\ failed = [name \in TrainNames |-> 0]
    /\ fs = [f \in FilePaths |-> Absent]
    /\ pathoutput = None
    /\ batch_mode = FALSE
    /\ previewoutput = None
    /\ previewcache = EmptyCache
    /\ pc = "idle"
    /\ image_files = <<>>
    /\ frame_dims = <<0, 0>>
    /\ thumbnail_size = 1
    /\ outcome = Ended("init", "none", "returned")
    /\ polls = 0
    /\ appended = <<>>
    /\ caps = {}
    /\ dropped = {}
    /\ cells = 0

\* an extract or convert task has been started on the output folder:
\* set_faceswap_output_path(OutDir) has been called and the folders exist
Started ==
    /\ NoTraining
    /\ NoTask
    /\ NoTrigger
    /\ NoGlobals
    /\ failed = [name \in TrainNames |-> 0]
    /\ fs = [f \in FilePaths |-> Absent]
    /\ pathoutput = Some(OutDir)
    /\ batch_mode = FALSE
    /\ previewoutput = None
    /\ previewcache = EmptyCache
    /\ pc = "idle"
    /\ image_files = <<>>
    /\ frame_dims = <<0, 0>>
    /\ thumbnail_size = 1
    /\ outcome = Ended("set_faceswap_output_path", "none", "returned")
    /\ polls = 0
    /\ appended = <<>>
    /\ caps = {}
    /\ dropped = {}
    /\ cells = 0

\* polling a running task: the producer writes between the polls
Init == Started /\ dirs = Dirs /\ race = FALSE
Next ==
    \/ \E size \in ThumbSizes, dims \in FrameDims : LoadLatestPreview(size, dims) /\ Blind
    \/ GetNewestFilenames /\ Blind
    \/ \E failing \in SUBSET FilePaths : LoadImages(failing) /\ Blind
    \/ ShowPreview /\ Blind
    \/ \E f \in FilePaths, mtime \in MTimes : ProducerWrite(f, mtime) /\ Blind
Spec == Init /\ [][Next]_vars

\* the same, the producer writing the reserved preview file and one other
\* image only
NextSingle ==
    \/ \E size \in ThumbSizes, dims \in FrameDims : LoadLatestPreview(size, dims) /\ Blind
    \/ GetNewestFilenames /\ Blind
    \/ \E failing \in SUBSET FilePaths : LoadImages(failing) /\ Blind
    \/ ShowPreview /\ Blind
    \/ \E f \in {GuiPreview(OutDir), Join(OutDir, "a.png")}, mtime \in MTimes :
          ProducerWrite(f, mtime) /\ Blind
SpecSingle == Init /\ [][NextSingle]_vars

\* the handshake on the reserved preview file: the producer writes the file
\* only while it is absent, every file is readable, and the GUI keeps polling
\* a display region that holds at least one thumbnail, with the one
\* thumbnail size of its configuration (the count of polls starts again when
\* it has reached its bound, so that the polls never end)
WriteNextPreview(mtime) ==
    /\ ~Exists(GuiPreview(OutDir))
    /\ ProducerWrite(GuiPreview(OutDir), mtime)
CountAgain ==
    /\ GuiIdle
    /\ polls = MaxPolls
    /\ polls' = 0
    /\ UNCHANGED <<train, dirs, fs, pathoutput, batch_mode, previewoutput, previewcache,
                   pc, image_files, frame_dims, thumbnail_size, outcome, race>>
Consumer ==
    \/ \E size \in {s \in ThumbSizes : \A t \in ThumbSizes : s <= t}, dims \in FrameDims :
          NumImages(dims, size) >= 1 /\ LoadLatestPreview(size, dims) /\ Blind
    \/ GetNewestFilenames /\ Blind
    \/ LoadImages({}) /\ Blind
    \/ ShowPreview /\ Blind
    \/ CountAgain /\ Blind
NextShake ==
    \/ Consumer
    \/ \E mtime \in MTimes : WriteNextPreview(mtime) /\ Blind
SpecShake == Init /\ [][NextShake]_vars /\ WF_vars(Consumer)

\* the same, with the history of the loads recorded
NextHist ==
    \/ \E size \in ThumbSizes, dims \in FrameDims : LoadLatestPreview(size, dims) /\ Blind
    \/ GetNewestFilenames /\ Blind
    \/ \E failing \in SUBSET FilePaths :
          LoadHistory(failing) /\ UNCHANGED <<dropped, cells, task, trigger, globals, failed>>
    \/ ShowPreview /\ Blind
    \/ \E f \in FilePaths, mtime \in MTimes : ProducerWrite(f, mtime) /\ Blind
SpecHist == Init /\ [][NextHist]_vars

\* the same, with the dropped files recorded
NextDrop ==
    \/ \E size \in ThumbSizes, dims \in FrameDims : LoadLatestPreview(size, dims) /\ Blind
    \/ GetNewestFilenames /\ Blind
    \/ \E failing \in SUBSET FilePaths :
          LoadDropped(failing) /\ UNCHANGED <<appended, caps, cells, task, trigger, globals, failed>>
    \/ ShowPreview /\ Blind
    \/ \E f \in FilePaths, mtime \in MTimes : ProducerWrite(f, mtime) /\ Blind
SpecDrop == Init /\ [][NextDrop]_vars

\* the life cycle of the cache: output path changes, task termination, polls
\* of the reserved preview file
InitLife == Constructed /\ dirs = Dirs /\ race = FALSE
NextLife ==
    \/ \E location \in Locations, batch \in BOOLEAN :
          SetFaceswapOutputPath(location, batch) /\ Blind
    \/ DeleteHistory /\ UNCHANGED <<dropped, cells, task, trigger, globals, failed>>
    \/ \E size \in ThumbSizes, dims \in FrameDims :
          PollCells(size, dims) /\ UNCHANGED <<appended, caps, dropped, task, trigger, globals, failed>>
    \/ GetNewestFilenames /\ Blind
    \/ \E failing \in SUBSET FilePaths :
          LoadHistory(failing) /\ UNCHANGED <<dropped, cells, task, trigger, globals, failed>>
    \/ ShowPreview /\ Blind
    \/ \E mtime \in MTimes : ProducerWrite(GuiPreview(OutDir), mtime) /\ Blind
SpecLife == InitLife /\ [][NextLife]_vars

\* folders that do not exist yet: they are created while the GUI runs
InitDirs == Constructed /\ dirs = {} /\ race = FALSE
NextDirs ==
    \/ \E location \in Locations, batch \in BOOLEAN :
          SetFaceswapOutputPath(location, batch) /\ Blind
    \/ DeletePreview /\ Blind
    \/ \E size \in ThumbSizes, dims \in FrameDims : LoadLatestPreview(size, dims) /\ Blind
    \/ \E d \in Dirs : MkDir(d) /\ Blind
SpecDirs == InitDirs /\ [][NextDirs]_vars

\* a training session: the trainer writes preview images, the GUI loads them
\* and deletes them when the task terminates
InitTrain == Constructed /\ dirs = Dirs /\ race = FALSE
NextTrain ==
    \/ \E reads \in [TrainFiles -> ReadOutcomes] : LoadTrainingPreview(reads) /\ Blind
    \/ \E f \in TrainFiles, mtime \in MTimes : TrainerWrite(f, mtime) /\ Blind
    \/ DeletePreview /\ Blind
SpecTrain == InitTrain /\ [][NextTrain]_vars

\* a LongRunningTask: it is constructed and started, the worker thread runs
\* the target while the GUI thread calls get_result
Aside == UNCHANGED <<preview, history, trigger, globals, failed>>
InitTask == Constructed /\ dirs = Dirs /\ race = FALSE
NextTask ==
    \/ \E thread_target \in {None} \cup {Some(t) : t \in Targets} :
          NewTask(thread_target) /\ Aside
    \/ Start /\ Aside
    \/ CallTarget /\ Aside
    \/ PutResult /\ Aside
    \/ StoreError /\ Aside
    \/ Finally /\ Aside
    \/ GetResult /\ Aside
    \/ GetResultError /\ Aside
    \/ GetResultValue /\ Aside
SpecTask == InitTask /\ [][NextTask]_vars

\* the trainer has written its preview images and the GUI keeps loading
\* them, some reads failing
Unseen == UNCHANGED <<appended, caps, dropped, cells, task, trigger, globals>>
InitRetry == Constructed /\ dirs = Dirs /\ race = FALSE
NextRetry ==
    \/ \E reads \in [TrainFiles -> CaughtReads] : TrainHistory(reads) /\ Unseen
    \/ \E f \in TrainFiles : TrainerWrite(f, 1) /\ Blind
SpecRetry == InitRetry /\ [][NextRetry]_vars

\* the GUI's start-up and its later accesses to the global objects
Alone == UNCHANGED <<preview, task, trigger, history, failed>>
InitGlobals == Constructed /\ dirs = Dirs /\ race = FALSE
NextGlobals ==
    \/ InitializeConfig /\ Alone
    \/ GetConfig /\ Alone
    \/ InitializeImages /\ Alone
    \/ GetImagesGlobal /\ Alone
    \/ PreviewTriggerGet /\ Alone
SpecGlobals == InitGlobals /\ [][NextGlobals]_vars

\* the GUI sets and clears the preview triggers while the faceswap process
\* consumes them
Apart == UNCHANGED <<preview, task, history, globals, failed>>
InitTrigger == Constructed /\ dirs = Dirs /\ race = FALSE
NextTrigger ==
    \/ \E trigger_type \in TriggerTypes : TriggerSet(trigger_type) /\ Apart
    \/ TriggerSetOpen /\ Apart
    \/ \E trigger_type \in {None} \cup {<<t>> : t \in TriggerTypes} :
          TriggerClear(trigger_type) /\ Apart
    \/ TriggerClearTest /\ Apart
    \/ TriggerClearRemove /\ Apart
    \/ \E trigger_type \in TriggerTypes : Consume(trigger_type) /\ Apart
SpecTrigger == InitTrigger /\ [][NextTrigger]_vars

\* the producer runs concurrently with a poll
InitRace == Started /\ dirs = Dirs /\ race = TRUE
NextRace ==
    \/ \E size \in ThumbSizes, dims \in FrameDims : LoadLatestPreview(size, dims) /\ Blind
    \/ GetNewestFilenames /\ Blind
    \/ \E failing \in SUBSET FilePaths : LoadImages(failing) /\ Blind
    \/ ShowPreview /\ Blind
    \/ \E f \in FilePaths, mtime \in MTimes : ProducerWrite(f, mtime) /\ Blind
    \/ \E f \in FilePaths : ProducerRemove(f) /\ Blind
SpecRace == InitRace /\ [][NextRace]_vars

\* _place_previews on its own: the caches it may be applied to hold no
\* thumbnails, or up to MaxCached thumbnails of one size with their names, and
\* the placeholder of that size once it has been created
SeqsUpTo(S, n) == UNION {[1..k -> S] : k \in 1..n}
ComposeCaches ==
    {EmptyCache} \cup
    {[modified |-> None,
      images |-> Some([i \in DOMAIN names |-> PadAndBorder(names[i], size)]),
      filenames |-> names,
      placeholder |-> IF created THEN Some(Placeholder(size)) ELSE None] :
        names \in SeqsUpTo(FilePaths, MaxCached), size \in ThumbSizes,
        created \in BOOLEAN}
InitCompose ==
    /\ NoTraining
    /\ NoTask
    /\ NoTrigger
    /\ NoGlobals
    /\ failed = [name \in TrainNames |-> 0]
    /\ dirs = Dirs
    /\ race = FALSE
    /\ previewcache \in ComposeCaches
    /\ fs = [f \in FilePaths |->
                IF f \in Range(previewcache.filenames)
                THEN [mtime |-> 1, ctime |-> 1] ELSE Absent]
    /\ pathoutput = Some(OutDir)
    /\ batch_mode = FALSE
    /\ previewoutput = None
    /\ pc = "show"
    /\ image_files = previewcache.filenames
    /\ frame_dims \in FrameDims
    /\ thumbnail_size = IF previewcache.images = None THEN 1
                        ELSE previewcache.images[1][1].size
    /\ outcome = Ended("set_faceswap_output_path", "none", "returned")
    /\ polls = 1
    /\ appended = <<>>
    /\ caps = {}
    /\ dropped = {}
    /\ cells = 0
NextCompose == ShowPreview /\ Blind
SpecCompose == InitCompose /\ [][NextCompose]_vars

TypeOK ==
    /\ dirs \subseteq Dirs
    /\ fs \in [FilePaths -> FileStates]
    /\ pc \in {"idle", "newest", "load", "show"}
    /\ polls \in 0..MaxPolls
    /\ errcount \in 0..ErrLimit
    /\ trainfs \in [TrainFiles -> 0..MaxTime]
    /\ \A name \in TrainNames :
          previewtrain[name] # None =>
             /\ TrainName(previewtrain[name][1].image) = name
             /\ previewtrain[name][1].modified \in MTimes

\* ------------------------------------------------------------------ claims
GuiFile == GuiPreview(OutDir)
FileA == Join(OutDir, "a.png")
FileB == Join(OutDir, "b.jpg")

\* the step of a poll that runs _get_newest_filenames, and the list it returns
ScanStep == pc = "newest" /\ pc' # "newest"
ScanResult == IF pc' = "load" THEN image_files' ELSE <<>>

\* C1: _get_newest_filenames returns every listed file when the watermark is
\* unset and exactly the files with a modification time strictly greater than
\* the watermark when it is set, in the listed order; an empty result leaves
\* the watermark unchanged, any other makes it the greatest modification time
\* among the returned files.
C1_ScanNew ==
    [][ScanStep =>
          LET modified == previewcache.modified
              newer == {f \in Range(image_files) :
                           modified = None \/ fs[f].mtime > modified[1]}
          IN  /\ ScanResult = Filter(image_files, newer)
              /\ Range(ScanResult) = newer
              /\ ScanResult = <<>> => previewcache'.modified = modified
              /\ ScanResult # <<>> =>
                    /\ previewcache'.modified # None
                    /\ \E f \in newer : fs[f].mtime = previewcache'.modified[1]
                    /\ \A f \in newer : fs[f].mtime <= previewcache'.modified[1]]_vars

\* a second scan, with the watermark set, has returned the one newer file of two
C1_Witness ==
    /\ pc = "load"
    /\ polls = 2
    /\ ~Exists(GuiFile) /\ Exists(FileA) /\ Exists(FileB)
    /\ Len(image_files) = 1
    /\ previewcache.modified = Some(fs[image_files[1]].mtime)
    /\ \E f \in {FileA, FileB} : fs[f].mtime < previewcache.modified[1]

\* C2: appending to the thumbnail cache is an oldest-first sliding window:
\* after any sequence of successful loads that all had the same capacity, the
\* cache holds the last min(capacity, total appended) thumbnails appended, in
\* the order in which they were appended.
C2_SlidingWindow ==
    /\ caps = {} => CachedImages(previewcache) = <<>>
    /\ \A capacity \in caps :
          caps = {capacity} =>
             LET total == Len(appended)
                 kept == Min(capacity, total)
             IN  /\ Len(CachedImages(previewcache)) = kept
                 /\ CachedImages(previewcache) = SubSeq(appended, total - kept + 1, total)

\* three or more thumbnails were appended with capacity 2: the oldest are gone
C2_Witness ==
    /\ caps = {2}
    /\ Len(appended) >= 3
    /\ Len(CachedImages(previewcache)) = 2
    /\ CachedImages(previewcache)[1] # CachedImages(previewcache)[2]
    /\ appended[1] # CachedImages(previewcache)[1]

\* C3: in every reachable state the cache holds as many thumbnails as
\* filenames, and at most as many as grid cells fit the display region given
\* to the latest poll.
C3_CacheBounded ==
    /\ Len(CachedImages(previewcache)) = Len(previewcache.filenames)
    /\ Len(CachedImages(previewcache)) <= cells

CachedFiles(cache) == {CachedImages(cache)[i].file : i \in DOMAIN CachedImages(cache)}

\* C4: while the reserved preview file is on disk a poll considers only that
\* file, whatever else the folder holds: nothing else is loaded or added to the
\* cache. A poll that has loaded it deletes it before it returns, and the file
\* never disappears in any other step.
C4_ReservedOnly ==
    [][/\ (pc' # "idle" /\ fs'[GuiFile] # Absent) => image_files' = <<GuiFile>>
       /\ (pc = "load" /\ Exists(GuiFile)) =>
             /\ Range(previewcache'.filenames)
                   \subseteq Range(previewcache.filenames) \cup {GuiFile}
             /\ CachedFiles(previewcache')
                   \subseteq CachedFiles(previewcache) \cup {GuiFile}
       /\ (pc = "show" /\ image_files = <<GuiFile>> /\ pc' = "idle") =>
             fs'[GuiFile] = Absent
       /\ (Exists(GuiFile) /\ fs'[GuiFile] = Absent) =>
             /\ pc = "show"
             /\ image_files = <<GuiFile>>
             /\ previewcache.filenames[Len(previewcache.filenames)] = GuiFile]_vars

\* the reserved file has just been loaded, alone, from a folder that holds two
\* other images
C4_Witness ==
    /\ pc = "show"
    /\ image_files = <<GuiFile>>
    /\ Exists(FileA) /\ Exists(FileB)
    /\ previewcache.filenames = <<GuiFile>>
    /\ CachedFiles(previewcache) = {GuiFile}

\* C5: a poll whose load of the reserved preview file fails (the load step ends
\* the poll without a thumbnail and without raising) resets the watermark to
\* unset and leaves the file on disk; both stay so until the next poll, which
\* lists the file, and whose scan selects it again whatever its modification
\* time is.
C5_ReservedRetry ==
    [][/\ (pc = "load" /\ image_files = <<GuiFile>>
              /\ pc' = "idle" /\ outcome'.exc = "none") =>
             /\ outcome'.ret = "not_loaded_reset"
             /\ previewcache'.modified = None
             /\ fs' = fs
             /\ Exists(GuiFile)
       /\ (outcome.ret = "not_loaded_reset" /\ pc \in {"idle", "newest"}) =>
             /\ previewcache.modified = None
             /\ Exists(GuiFile)
       /\ (outcome.ret = "not_loaded_reset" /\ polls' = polls + 1) =>
             /\ pc' = "newest"
             /\ image_files' = <<GuiFile>>
       /\ (outcome.ret = "not_loaded_reset" /\ pc = "newest") =>
             /\ pc' = "load"
             /\ image_files' = <<GuiFile>>]_vars

\* the second poll has selected the reserved file that the first one failed
\* to load
C5_Witness ==
    /\ pc = "load"
    /\ polls = 2
    /\ outcome.op = Poll
    /\ outcome.ret = "not_loaded_reset"
    /\ image_files = <<GuiFile>>
    /\ previewcache.filenames = <<>>

\* what the display shows: the cached thumbnails, their names, the composite
Displayed == <<previewcache.images, previewcache.filenames, previewoutput>>

\* C6: a poll whose load step yields no usable thumbnail is a no-op on the
\* displayed content: no step of the poll up to and including that load step
\* changes the cached thumbnails, the cached filenames or previewoutput.
C6_EmptyLoadNoOp ==
    [][/\ (pc \in {"idle", "newest"}) => Displayed' = Displayed
       /\ (pc = "load" /\ pc' = "idle" /\ outcome'.exc = "none") =>
             /\ outcome'.ret \in {"not_loaded", "not_loaded_reset"}
             /\ Displayed' = Displayed]_vars

\* a poll has just ended on a load without thumbnails while a composite of
\* an earlier poll is displayed
C6_Witness ==
    /\ pc = "idle"
    /\ polls = 2
    /\ outcome.ret \in {"not_loaded", "not_loaded_reset"}
    /\ previewoutput # None
    /\ previewcache.images # None
    /\ previewcache.filenames # <<>>

\* position of a file in a list of distinct files
IndexOf(s, x) == CHOOSE i \in DOMAIN s : s[i] = x

\* C7: for every set of files that fail to open or resize, the thumbnails a
\* load produces are those of the files that loaded, in the order of the batch,
\* and the filename list handed to the cache names exactly those files, one
\* per thumbnail, and none of the dropped ones; a load into an empty cache
\* stores names and thumbnails that match one for one.
C7_DroppedExcluded ==
    [][/\ pc = "load" =>
             \A failing \in SUBSET Range(image_files) :
                LET num_images == NumImages(frame_dims, thumbnail_size)
                    show_files == ShowFiles(image_files, num_images)
                    samples == Samples(show_files, failing, thumbnail_size)
                    names == LoadedFilenames(show_files,
                                             DroppedFiles(show_files, failing))
                IN  /\ Len(samples) = Len(names)
                    /\ \A i \in DOMAIN names : samples[i].file = names[i]
                    /\ Range(names) = Range(show_files) \ failing
                    /\ \A i, j \in DOMAIN names :
                          i < j => IndexOf(show_files, names[i])
                                      < IndexOf(show_files, names[j])
       /\ (pc = "load" /\ pc' = "show" /\ previewcache.images = None
              /\ previewcache.filenames = <<>>) =>
             /\ Len(previewcache'.filenames) = Len(CachedImages(previewcache'))
             /\ \A i \in DOMAIN previewcache'.filenames :
                   CachedImages(previewcache')[i].file = previewcache'.filenames[i]
             /\ Range(previewcache'.filenames) \subseteq Range(image_files)]_vars

\* of two listed files that both fit the display, one was dropped and the
\* other one loaded
C7_Witness ==
    /\ pc = "show"
    /\ polls = 1
    /\ Len(image_files) = 2
    /\ NumImages(frame_dims, thumbnail_size) >= 2
    /\ Len(previewcache.filenames) = 1
    /\ CachedFiles(previewcache) = Range(previewcache.filenames)

\* C8: whatever the producer does to a listed file between the directory
\* listing and a later step of the poll, load_latest_preview never ends by
\* propagating the I/O error of a file.
C8_NeverPropagated == outcome.op = Poll => outcome.exc # "FileNotFoundError"

\* the files of the poll in progress, other than the reserved one, whose last
\* load failed
DroppedListed(drops, files) == (drops \cap Range(files)) \ {GuiFile}

C10_MissingDirEmpty ==
    outcome.op \in {Poll, "delete_preview"} => outcome.exc = "none"

\* the grid positions (column, row) at which a whole thumbnail fits the region
WholeCells(dims, size) ==
    {cell \in (1..dims[1]) \X (1..dims[2]) :
        cell[1] * size <= dims[1] /\ cell[2] * size <= dims[2]}

\* C11: the capacity of a poll is the number of whole thumbnails that fit its
\* display region, never negative, and 0 when the region is smaller than a
\* thumbnail in either dimension; it is the cols * rows of the grid that
\* _place_previews composes in that poll; a poll with capacity 0 ends at its
\* load step without an error and leaves the display as it was.
C11_Capacity ==
    [][/\ pc = "load" =>
             LET capacity == NumImages(frame_dims, thumbnail_size)
             IN  /\ capacity >= 0
                 /\ capacity = Cardinality(WholeCells(frame_dims, thumbnail_size))
                 /\ (frame_dims[1] < thumbnail_size \/ frame_dims[2] < thumbnail_size)
                       => capacity = 0
                 /\ capacity = 0 =>
                       /\ pc' = "idle"
                       /\ outcome'.exc = "none"
                       /\ Displayed' = Displayed
       /\ (pc = "show" /\ previewoutput' # None) =>
             LET size == CachedImages(previewcache)[1].size
             IN  /\ previewoutput'[1].cols = frame_dims[1] \div size
                 /\ previewoutput'[1].rows = frame_dims[2] \div size
                 /\ previewoutput'[1].cols * previewoutput'[1].rows
                       = NumImages(frame_dims, thumbnail_size)]_vars

\* the load step of a poll whose region is wide enough but not high enough
\* for one thumbnail, while a composite of an earlier poll is displayed
C11_Witness ==
    /\ pc = "load"
    /\ frame_dims[1] >= thumbnail_size
    /\ frame_dims[2] < thumbnail_size
    /\ NumImages(frame_dims, thumbnail_size) = 0
    /\ previewoutput # None

\* the number of thumbnails _place_previews finds in the cache, and the
\* columns and rows it derives from their size
Held == Len(CachedImages(previewcache))
GridCols == frame_dims[1] \div CachedImages(previewcache)[1].size
GridRows == frame_dims[2] \div CachedImages(previewcache)[1].size
NoGrid == Held = 0 \/ GridCols * GridRows = 0

\* C12: applied to a cache that holds no thumbnail, or to a region without a
\* cell, _place_previews returns none; applied to a cache whose thumbnails fit
\* the cells of the region it returns a composite of rows rows of cols cells;
\* it returns none in no other case.
C12_NoneOrGrid ==
    [][(pc = "show" /\ (NoGrid \/ Held <= GridCols * GridRows)) =>
          /\ outcome'.exc = "none"
          /\ previewoutput' = None <=> NoGrid
          /\ previewoutput' # None =>
                LET image == previewoutput'[1]
                IN  /\ image.cols = GridCols /\ image.rows = GridRows
                    /\ Len(image.grid) = GridRows
                    /\ \A row \in DOMAIN image.grid : Len(image.grid[row]) = GridCols]_vars

\* _place_previews has returned none for a cache that holds thumbnails,
\* because the region is too low for one row
C12_Witness ==
    /\ pc = "idle"
    /\ outcome.ret = "no_show"
    /\ previewoutput = None
    /\ Len(CachedImages(previewcache)) = 2
    /\ previewcache.placeholder # None

\* the cells of a composite read left to right, top to bottom
RECURSIVE RowMajor(_)
RowMajor(grid) ==
    IF grid = <<>> THEN <<>> ELSE Head(grid) \o RowMajor(Tail(grid))

\* C13: with k cached thumbnails, 0 < k <= cols * rows, the cells of the
\* composite read in row-major order are the k cached thumbnails in cache
\* order followed by cols * rows - k placeholders, so that no placeholder
\* appears when k = cols * rows.
C13_RowMajorPadding ==
    [][(pc = "show" /\ Held > 0 /\ Held <= GridCols * GridRows) =>
          /\ previewoutput' # None
          /\ LET cells_read == RowMajor(previewoutput'[1].grid)
                 blank == Placeholder(CachedImages(previewcache)[1].size)
             IN  /\ Len(cells_read) = GridCols * GridRows
                 /\ SubSeq(cells_read, 1, Held) = CachedImages(previewcache)
                 /\ \A i \in (Held + 1)..(GridCols * GridRows) : cells_read[i] = blank
                 /\ \A i \in 1..Held : cells_read[i] # blank
                 /\ previewcache'.placeholder = Some(blank)]_vars

\* two thumbnails composed on a grid of two rows of two cells: the top row
\* holds them in cache order, the bottom row two placeholders
C13_Witness ==
    /\ pc = "idle"
    /\ outcome.ret = "displayed"
    /\ Len(CachedImages(previewcache)) = 2
    /\ CachedImages(previewcache)[1] # CachedImages(previewcache)[2]
    /\ previewoutput # None
    /\ previewoutput[1].cols = 2 /\ previewoutput[1].rows = 2
    /\ previewoutput[1].grid[1] = CachedImages(previewcache)
    /\ previewoutput[1].grid[2] = <<previewcache.placeholder[1], previewcache.placeholder[1]>>

\* C15: a call of set_faceswap_output_path that changes the preview source
\* (another output path, or batch mode switched) leaves the cached
\* thumbnails, the cached filenames and the watermark empty.
C15_SourceChangeClears ==
    [][(pathoutput' # None /\ (pathoutput' # pathoutput \/ batch_mode' # batch_mode)) =>
          /\ previewcache'.images = None
          /\ previewcache'.filenames = <<>>
          /\ previewcache'.modified = None]_vars

\* C14: once delete_preview has been called the whole preview state is reset:
\* the watermark is unset, there are no cached thumbnails, filenames or
\* placeholder, previewoutput is None, previewtrain is empty, the output
\* path is unset and batch mode is off.
C14_DeleteResets ==
    outcome.op = "delete_preview" =>
       /\ previewcache.modified = None
       /\ previewcache.images = None
       /\ previewcache.filenames = <<>>
       /\ previewcache.placeholder = None
       /\ previewoutput = None
       /\ previewtrain = EmptyTrain
       /\ pathoutput = None
       /\ batch_mode = FALSE

\* a get_result call begins, and a get_result call ends
CallBegins == getter = "idle" /\ gets' = gets + 1
CallEnds == got' # got \/ (getter # "idle" /\ getter' = "idle")

\* C16: a get_result call made while the complete event is unset returns None
\* in the step that tests the event, without waiting, and leaves the queued
\* result, the stored error, the cursor and the event as they were.
C16_NotReady ==
    [][(CallBegins /\ ~complete) =>
          /\ getter' = "idle"
          /\ got'.kind = "not_ready"
          /\ got'.ret = None
          /\ got'.exc = None
          /\ UNCHANGED <<queue, err, cursor, complete, worker>>]_vars

\* get_result has answered not ready although the worker thread had already
\* enqueued the result, the event being still unset
C16_Witness ==
    /\ got.kind = "not_ready"
    /\ gets = 1
    /\ ~complete
    /\ queue # <<>>
    /\ worker.pc = "finally"
    /\ cursor = CursorBusy

\* C17: an exception derived from Exception that the target raises is caught
\* by run and stored with its traceback, so that run never propagates one; the
\* stored error is never replaced or removed, and every get_result call made
\* after completion with an error stored raises that very exception with the
\* traceback it was stored with.
C17_ErrorReraised ==
    [][/\ (worker.pc = "run" /\ target # None /\ target[1].does = "raises"
              /\ target[1].with[1] \in Errors /\ worker' # worker) =>
             worker' = At("except", target[1].with)
       /\ worker.pc = "except" =>
             (worker' # worker =>
                /\ err' = Some([exception |-> worker.held[1],
                                traceback |-> TracebackOf(worker.held[1])])
                /\ worker'.pc = "finally"
                /\ worker'.held = None)
       /\ worker'.pc = "propagated" => worker'.held[1] \notin Errors
       /\ err # None => err' = err
       /\ (CallBegins /\ complete /\ err # None) => getter' = "err"
       /\ (getter = "err" /\ err # None /\ getter' # getter) =>
             /\ getter' = "idle"
             /\ got'.kind = "raised"
             /\ got'.exc = Some(err[1].exception)
             /\ got'.traceback = TracebackOf(err[1].exception)]_vars

\* a second get_result call after completion has raised the stored exception
C17_Witness ==
    /\ gets = 2
    /\ getter = "idle"
    /\ worker.pc = "done"
    /\ complete
    /\ err # None
    /\ got.kind = "raised"
    /\ got.exc = Some(err[1].exception)
    /\ got.exc[1] \in Errors

\* C18: the complete event is unset while the task is constructed, started or
\* in its target, it is set by the finally clause of run only and stays set;
\* a value the target returned is enqueued, and an error it raised is
\* stored, before the event is set, so that a get_result that has seen the
\* event set finds the error or the value.
C18_CompleteAfterOutcome ==
    [][/\ worker.pc \in {"new", "run", "put", "except", "finally"} => ~complete
       /\ worker.pc \in {"done", "propagated"} => complete
       /\ complete => complete'
       /\ (~complete /\ complete') => (worker.pc = "finally" /\ worker'.pc # "finally")
       /\ (worker.pc = "put" /\ worker' # worker) =>
             /\ queue' = Append(queue, worker.held)
             /\ worker'.pc = "finally"
             /\ ~complete'
       /\ (worker.pc = "except" /\ worker' # worker) =>
             /\ err' # None
             /\ worker'.pc = "finally"
             /\ ~complete'
       /\ (complete /\ (queue # <<>> \/ err # None)) =>
             (err' = err /\ (queue' # queue => (getter = "get" /\ got'.ret = Head(queue))))
       /\ getter \in {"err", "get"} => complete]_vars

\* the GUI thread has seen the event set and is about to fetch the value that
\* the worker thread enqueued
C18_Witness ==
    /\ getter = "get"
    /\ complete
    /\ queue # <<>>
    /\ worker.pc = "done"
    /\ gets = 2
    /\ got.kind = "not_ready"

\* C19: constructing the task sets the cursor busy; the cursor stays busy
\* until a get_result call made after completion ends; such a call sets the
\* cursor to default when it returns the value and when it raises the stored
\* error; nothing else changes the cursor.
C19_CursorBusy ==
    [][/\ (worker.pc = "unbuilt" /\ worker'.pc # "unbuilt") => cursor' = CursorBusy
       /\ (worker.pc # "unbuilt" /\ got.kind \in {"no_call", "not_ready"}) =>
             cursor = CursorBusy
       /\ (worker.pc # "unbuilt" /\ cursor' # cursor) =>
             /\ complete
             /\ getter \in {"err", "get"}
             /\ getter' = "idle"
             /\ got'.kind \in {"returned", "raised"}
             /\ cursor' = CursorDefault
       /\ (getter \in {"err", "get"} /\ getter' = "idle") => cursor' = CursorDefault]_vars

\* after a call that came too early, a second call has returned the value
\* and reset the cursor
C19_Witness ==
    /\ gets = 2
    /\ got.kind = "returned"
    /\ got.ret = Some("result")
    /\ cursor = CursorDefault
    /\ worker.pc = "done"

\* C20: set on a trigger type whose file is absent ends with an empty file of
\* that type created and nothing else changed; set on a trigger type whose
\* file is present ends at once and leaves every trigger file as it was, so a
\* second set before the file is removed changes nothing on disk.
C20_SetIdempotent ==
    [][/\ (caller.pc = "open" /\ caller' # caller) =>
             /\ markers[caller.todo[1]] = None
             /\ markers'[caller.todo[1]] # None
             /\ markers'[caller.todo[1]][1].size = 0
             /\ \A other \in TriggerTypes \ {caller.todo[1]} :
                   markers'[other] = markers[other]
             /\ reply' = Reply("set", "none", TRUE)
       /\ \A trigger_type \in TriggerTypes :
             (caller = Waiting /\ calls' # calls /\ IsFile(trigger_type)
                /\ (caller'.pc = "open" => caller'.todo = <<trigger_type>>)
                /\ caller'.pc # "test") =>
                   /\ caller' = Waiting
                   /\ reply' = Reply("set", "none", FALSE)
                   /\ markers' = markers
       /\ (caller = Waiting /\ caller'.pc = "open") =>
             (~IsFile(caller'.todo[1]) /\ markers' = markers)]_vars

\* a second set call has ended while the file that the first set call
\* created was still there
C20_Witness ==
    /\ calls = 2
    /\ caller = Waiting
    /\ reply = Reply("set", "none", FALSE)
    /\ markers["update"] # None
    /\ markers["mask_toggle"] = None

\* the trigger file that clear is looking at
Current == Head(caller.todo)

\* C21: a step of clear that tests a trigger file that is absent removes
\* nothing, raises nothing and moves on to the next listed file; a step that
\* tests a file that is present goes on to delete it, and the delete of a
\* file that is there removes that file; a clear that removed nothing ends
\* without an error and leaves every trigger file as it was.
C21_ClearIdempotent ==
    [][/\ (caller.pc = "test" /\ caller.todo # <<>> /\ caller' # caller) =>
             /\ markers' = markers
             /\ reply' = reply
             /\ IF IsFile(Current)
                THEN caller' = [caller EXCEPT !.pc = "remove"]
                ELSE caller' = [caller EXCEPT !.todo = Tail(caller.todo)]
       /\ (caller.pc = "remove" /\ caller' # caller /\ IsFile(Current)) =>
             /\ markers' = [markers EXCEPT ![Current] = None]
             /\ caller'.pc = "test"
             /\ caller'.did
             /\ reply' = reply
       /\ (caller.pc = "test" /\ caller.todo = <<>> /\ caller' # caller) =>
             /\ markers' = markers
             /\ caller' = Waiting
             /\ reply' = Reply("clear", "none", caller.did)]_vars

\* a third call, a clear of the update trigger, has ended without removing
\* anything and without an error, no trigger file being there
C21_Witness ==
    /\ calls = 3
    /\ caller = Waiting
    /\ asked = Some("update")
    /\ reply = Reply("clear", "none", FALSE)
    /\ markers = [trigger_type \in TriggerTypes |-> None]

\* C22 (frame): no step of a set or clear call of one trigger type changes
\* the trigger file of the other type.
C22_OtherUntouched ==
    [][(caller' # caller \/ calls' # calls) =>
          \A other \in IF asked' = None THEN {} ELSE TriggerTypes \ {asked'[1]} :
             markers'[other] = markers[other]]_vars

\* a set of mask_toggle has ended with the update trigger file, created by
\* the call before it, still there
C22_Witness ==
    /\ calls = 2
    /\ caller = Waiting
    /\ asked = Some("mask_toggle")
    /\ reply = Reply("set", "none", TRUE)
    /\ markers["update"] # None
    /\ markers["mask_toggle"] # None

\* C22 (clear of all): when a clear call with no trigger type named has
\* ended, no trigger file is left.
C22_ClearAllRemovesBoth ==
    (caller = Waiting /\ reply.op = "clear" /\ asked = None) =>
        \A trigger_type \in TriggerTypes : ~IsFile(trigger_type)

\* C29: clear never ends with an error, and the trigger file it was asked
\* to remove is gone when it has ended.
C29_ClearNeverRaises ==
    (caller = Waiting /\ reply.op = "clear") =>
        /\ reply.exc = "none"
        /\ asked # None => ~IsFile(asked[1])

\* a call of the named function of the module
Asked(fn) == asks' # asks /\ handed'.fn = fn

C23_FailingStreamDropped ==
    \A name \in TrainNames :
       failed[name] > ErrLimit => previewtrain[name] = None

\* the output folder holds no image file
NoImageFiles ==
    \A listing \in Perms(ListDir(pathoutput[1])) :
       GetImages(pathoutput[1], listing) = <<>>

\* C24: previewoutput is None once delete_preview has ended, and once a poll
\* has ended that found no image file in the output folder, which still
\* holds none.
C24_NoneWithoutFiles ==
    /\ outcome.op = "delete_preview" => previewoutput = None
    /\ (outcome = Ended(Poll, "none", "no_preview") /\ ~batch_mode /\ NoImageFiles) =>
           previewoutput = None

\* C25: every entry that a load_training_preview call stores in previewtrain
\* holds, as its modification time, the modification time of the file that
\* the entry's image was read from.
C25_OwnModificationTime ==
    [][\A name \in TrainNames :
          (previewtrain'[name] # None /\ previewtrain'[name] # previewtrain[name]) =>
             previewtrain'[name][1].modified = trainfs[previewtrain'[name][1].image]]_vars

\* C27: no get_result call made with the complete event set waits on an
\* empty queue: when the call reaches self._queue.get() there is a value
\* to take.
C27_NeverBlocks ==
    (getter = "get" /\ complete) => queue # <<>>

\* the folder that a poll scans (line 616)
ScannedFolder ==
    IF batch_mode THEN GetNewestFolder(pathoutput[1]) ELSE pathoutput[1]

\* C30: a poll that finds exactly one image file in the scanned folder, the
\* file not being the reserved preview file, ends in that step and changes
\* neither the watermark, nor the cache, nor previewoutput.
C30_SingleOtherFileNoOp ==
    [][(GuiIdle /\ polls' # polls /\ pathoutput # None
          /\ (batch_mode => pathoutput[1] \in dirs)
          /\ \E f \in FilePaths \ {GuiPreview(pathoutput[1])} :
                \A listing \in Perms(ListDir(ScannedFolder)) :
                   GetImages(ScannedFolder, listing) = <<f>>) =>
          /\ outcome' = Ended(Poll, "none", "no_preview")
          /\ pc' = "idle"
          /\ UNCHANGED <<previewcache, previewoutput, fs>>]_vars

\* a poll of a folder that holds a.png and nothing else has ended as a poll
\* with no preview; the cache holds the reserved preview file of the poll
\* before it
C30_Witness ==
    /\ outcome = Ended(Poll, "none", "no_preview")
    /\ polls >= 1
    /\ ~batch_mode
    /\ pathoutput # None
    /\ \A listing \in Perms(ListDir(pathoutput[1])) :
          GetImages(pathoutput[1], listing) = <<FileA>>
    /\ Exists(FileA)
    /\ polls = 2
    /\ previewcache.filenames = <<GuiFile>>
    /\ previewoutput # None

\* C28: every reserved preview file that the producer writes is in the end
\* deleted by a poll.
C28_HandshakeNeverStalls ==
    Exists(GuiPreview(OutDir)) ~> ~Exists(GuiPreview(OutDir))

====
